---- MODULE Spec2Model ----
(***************************************************************************)
(* Model of the command execution engine of the "Command Output Hover"     *)
(* extension (commandExecutor.ts): sanitizeInput, buildCommand and the      *)
(* event-driven executeCommand, together with the events a Node.js          *)
(* ChildProcess delivers to its listeners.                                  *)
(*                                                                         *)
(* Text is a sequence of one-character strings.  Messages built with a      *)
(* template literal are sequences of their pieces.                          *)
(***************************************************************************)
EXTENDS Naturals, Integers, Sequences, FiniteSets, TLC

VARIABLES
    pc,              \* position of the call: "idle", "called", "sanitized", "built", "spawned"
    selectedText,    \* execute's argument selectedText
    commandTemplate, \* execute's argument commandTemplate
    shellType,       \* execute's argument shellType
    timeout,         \* execute's argument timeout
    sanitizedInput,  \* execute's local sanitizedInput
    substituted,     \* buildCommand's local command right after the placeholder replace
    command,         \* the command handed to the shell
    shellArgv,       \* <<binary, flag>> given to spawn
    proc,            \* the child: "none", "spawnfail", "alive", "exited", "failclosing", "closed"
    streamsHeld,     \* TRUE when the stdio pipes never close (a descendant keeps them, or SIGTERM is ignored)
    launchError,     \* errno name of a failed spawn, "" when the spawn worked
    exitCode,        \* code the 'close' event will carry: <<n>> or <<>> for null (signal)
    stdout,          \* executeCommand's local stdout
    stderr,          \* executeCommand's local stderr
    timedOut,        \* executeCommand's local timedOut
    timerArmed,      \* the setTimeout is pending (not fired, not cleared)
    killed,          \* process.kill() delivered its signal
    promise,         \* "pending", "fulfilled", "rejected"
    delivered,       \* the values the awaiting caller received
    resolveCalls,    \* how many times resolve was invoked
    errorSeen,       \* the 'error' listener has run
    closeSeen,       \* the 'close' listener has run
    hoverData,       \* HoverManager.hoverData: uri -> outputs (a sequence of StoredOutput)
    cleanupInterval, \* HoverManager.cleanupInterval is running
    now,             \* Date.now(), in ms since the HoverManager was constructed
    ticks,           \* how many times the clock has advanced
    last,            \* the last store operation: its arguments and what it returned
    openDocs,        \* the documents that are open in the workspace
    request,         \* the executeCommand handler's last invocation: its locals and how far it got
    popup,           \* the arguments of the last showOutputPopup call, <<>> before the first
    shownMessages,   \* the texts the last handler invocation gave to showErrorMessage / showWarningMessage
    nextSweep,       \* the time at which the cleanup interval fires next
    handlers,        \* the executeCommand handler invocations, in dispatch order: their locals and how far they got
    poster,          \* JsonPoster.post: the call's arguments, whether a request went out, and what the caller got
    panel            \* the custom JSON editor: isUpdatingDocument, the updateText messages under way, the last document change

vars == <<pc, selectedText, commandTemplate, shellType, timeout, sanitizedInput,
          substituted, command, shellArgv, proc, streamsHeld, launchError,
          exitCode, stdout, stderr, timedOut, timerArmed, killed, promise,
          delivered, resolveCalls, errorSeen, closeSeen, hoverData,
          cleanupInterval, now, ticks, last, openDocs, request, popup,
          shownMessages, nextSweep, handlers, poster, panel>>

\* The handlers in flight, the JSON poster and the JSON editor panel.
sessionVars == <<handlers, poster, panel>>

\* The state of the extension host around the executor and the store.
hostVars == <<openDocs, request, popup, shownMessages, nextSweep, sessionVars>>

storeVars == <<hoverData, cleanupInterval, now, ticks, last>>

requestVars == <<selectedText, commandTemplate, shellType, timeout>>
processVars == <<shellArgv, proc, streamsHeld, launchError, exitCode, stdout,
                 stderr, timedOut, timerArmed, killed, promise, delivered,
                 resolveCalls, errorSeen, closeSeen>>

(***************************************************************************)
(* Bounds                                                                  *)
(***************************************************************************)
MaxInputLen == 2     \* longest selected text
MaxSegments == 2     \* most pieces a command template is made of
MaxChunks == 2       \* most data chunks per output stream
MaxExitCode == 2     \* largest exit status a process returns
MaxPos == 1          \* last position of a document
MaxRecords == 2      \* most records the store holds at a time
MaxTicks == 2        \* most advances of the clock
MaxCommands == 1     \* most commands the handler dispatches

(***************************************************************************)
(* Characters and strings                                                  *)
(***************************************************************************)
BACKSLASH == "\\"
DQUOTE == "\""
SQUOTE == "'"
BACKTICK == "BACKTICK"   \* the grave accent (TLA+ strings cannot hold the character itself)
DOLLAR == "$"

Special == {BACKSLASH, DQUOTE, SQUOTE, BACKTICK, DOLLAR}

\* The characters a selected text is made of: the five escaped ones, an
\* ordinary letter and the ampersand.
InputChars == Special \cup {"a", "&"}

RECURSIVE SeqsUpTo(_, _)
SeqsUpTo(S, n) ==
    IF n = 0 THEN {<<>>}
    ELSE LET shorter == SeqsUpTo(S, n - 1)
         IN  shorter \cup {Append(s, c) : s \in {t \in shorter : Len(t) = n - 1}, c \in S}

RECURSIVE Flatten(_)
Flatten(ss) == IF ss = <<>> THEN <<>> ELSE Head(ss) \o Flatten(Tail(ss))

\* The placeholder token {{input}}.
Placeholder == <<"{", "{", "i", "n", "p", "u", "t", "}", "}">>

\* The pieces templates are made of: the placeholder, a command word, a
\* quote, a brace (so that "{{{input}}" occurs) and a separator.
TemplatePieces == {Placeholder, <<"e", " ">>, <<SQUOTE>>, <<"{">>, <<"x">>}

\* The default template, echo {{input}}.
EchoTemplate == <<"e", "c", "h", "o", " ">> \o Placeholder

Templates ==
    {Flatten(ps) : ps \in SeqsUpTo(TemplatePieces, MaxSegments)} \cup {EchoTemplate}

Inputs == SeqsUpTo(InputChars, MaxInputLen)

ShellTypes == {"bash", "powershell"}

\* TRUE iff pat occurs in s at index i.
MatchAt(s, pat, i) ==
    /\ i + Len(pat) - 1 <= Len(s)
    /\ \A k \in 1..Len(pat) : s[i + k - 1] = pat[k]

(***************************************************************************)
(* String.prototype.replace(/pat/g, replacement) for a literal pattern.    *)
(* The replacement is a replacement template: GetSubstitution expands the  *)
(* dollar patterns (dollar dollar, dollar ampersand, dollar backtick and   *)
(* dollar quote); dollar digit and dollar angle stay literal, the patterns *)
(* used here having no capture group.                                      *)
(***************************************************************************)
RECURSIVE GetSubstitution(_, _, _, _, _)
GetSubstitution(matched, str, position, replacement, k) ==
    IF k > Len(replacement) THEN <<>>
    ELSE IF replacement[k] = DOLLAR /\ k < Len(replacement)
              /\ replacement[k + 1] \in {DOLLAR, "&", BACKTICK, SQUOTE}
    THEN (CASE replacement[k + 1] = DOLLAR -> <<DOLLAR>>
            [] replacement[k + 1] = "&" -> matched
            [] replacement[k + 1] = BACKTICK -> SubSeq(str, 1, position - 1)
            [] replacement[k + 1] = SQUOTE ->
                   SubSeq(str, position + Len(matched), Len(str)))
         \o GetSubstitution(matched, str, position, replacement, k + 2)
    ELSE <<replacement[k]>>
         \o GetSubstitution(matched, str, position, replacement, k + 1)

RECURSIVE ReplaceFrom(_, _, _, _)
ReplaceFrom(s, pat, replacement, i) ==
    IF i > Len(s) THEN <<>>
    ELSE IF MatchAt(s, pat, i)
    THEN GetSubstitution(pat, s, i, replacement, 1)
         \o ReplaceFrom(s, pat, replacement, i + Len(pat))
    ELSE <<s[i]>> \o ReplaceFrom(s, pat, replacement, i + 1)

JsReplaceAll(s, pat, replacement) == ReplaceFrom(s, pat, replacement, 1)

\* A slip in the order of the passes: the backslash pass runs last.
sanitizeInputBackslashLast(input) ==
    LET s1 == JsReplaceAll(input, <<DQUOTE>>, <<BACKSLASH, DQUOTE>>)
        s2 == JsReplaceAll(s1, <<SQUOTE>>, <<BACKSLASH, SQUOTE>>)
        s3 == JsReplaceAll(s2, <<BACKTICK>>, <<BACKSLASH, BACKTICK>>)
        s4 == JsReplaceAll(s3, <<DOLLAR>>, <<BACKSLASH, DOLLAR>>)
    IN  JsReplaceAll(s4, <<BACKSLASH>>, <<BACKSLASH, BACKSLASH>>)

\* The pass for the single quote left out.
sanitizeInputSkipsQuote(input) ==
    LET s1 == JsReplaceAll(input, <<BACKSLASH>>, <<BACKSLASH, BACKSLASH>>)
        s2 == JsReplaceAll(s1, <<DQUOTE>>, <<BACKSLASH, DQUOTE>>)
        s4 == JsReplaceAll(s2, <<BACKTICK>>, <<BACKSLASH, BACKTICK>>)
    IN  JsReplaceAll(s4, <<DOLLAR>>, <<BACKSLASH, DOLLAR>>)

sanitizeInput(input) ==
    LET s1 == JsReplaceAll(input, <<BACKSLASH>>, <<BACKSLASH, BACKSLASH>>)
        s2 == JsReplaceAll(s1, <<DQUOTE>>, <<BACKSLASH, DQUOTE>>)
        s3 == JsReplaceAll(s2, <<SQUOTE>>, <<BACKSLASH, SQUOTE>>)
        s4 == JsReplaceAll(s3, <<BACKTICK>>, <<BACKSLASH, BACKTICK>>)
    IN  JsReplaceAll(s4, <<DOLLAR>>, <<BACKSLASH, DOLLAR>>)

\* A template without the placeholder gets the input appended.
substituteAppendsInput(template, sanitized) ==
    IF \E i \in 1..Len(template) : MatchAt(template, Placeholder, i)
    THEN JsReplaceAll(template, Placeholder, sanitized)
    ELSE template \o <<" ">> \o sanitized

\* buildCommand's first statement: the placeholder replace.
substitute(template, sanitized) == JsReplaceAll(template, Placeholder, sanitized)

\* buildCommand's PowerShell pass over the substituted command.
shellPass(cmd, shell) ==
    IF shell = "powershell"
    THEN JsReplaceAll(cmd, <<SQUOTE>>, <<SQUOTE, SQUOTE>>)
    ELSE cmd

\* buildCommand with the PowerShell pass applied to the input before the
\* placeholder replace instead of to the substituted command.
buildCommandPassBeforeReplace(template, sanitized, shell) ==
    substitute(template, shellPass(sanitized, shell))

buildCommand(template, sanitized, shell) ==
    shellPass(substitute(template, sanitized), shell)

\* The configured timeout when the setting is absent.
DefaultTimeout == 30000

(***************************************************************************)
(* HoverManager (hoverManager.ts): the store of command outputs.           *)
(* A position is a number (the positions of a document in their order), a  *)
(* range is <<start, end>> with start <= end, hoverData is a function from  *)
(* the uris that have an entry to their outputs.                            *)
(***************************************************************************)
CLEANUP_INTERVAL_MS == 5 * 60 * 1000
MAX_AGE_MS == 60 * 60 * 1000

Docs == {"file:///a", "file:///b"}
Positions == 0..MaxPos
Ranges == {r \in Positions \X Positions : r[1] <= r[2]}
Outputs == {<<"o">>, <<"w">>}

\* vscode.Range.contains(position): the end position is inside the range.
Contains(range, position) == range[1] <= position /\ position <= range[2]

\* vscode.Range.isEqual(other)
isEqual(range, other) == range[1] = other[1] /\ range[2] = other[2]

EmptyMap == [u \in {} |-> <<>>]

\* Map.delete(uri)
MapDelete(data, uri) == [u \in DOMAIN data \ {uri} |-> data[u]]

\* outputs.filter(stored => !stored.range.isEqual(range))
WithoutRange(outputs, range) ==
    LET Keep(stored) == ~isEqual(stored.range, range)
    IN  SelectSeq(outputs, Keep)

StoredOutput(output, range, timestamp, cmd, input) ==
    [output |-> output, range |-> range, timestamp |-> timestamp,
     command |-> cmd, input |-> input]

\* storeOutput that leaves the store alone when the range has a record.
storeOutputKeepsExisting(data, uri, range, output, cmd, input, dateNow) ==
    LET outputs == IF uri \in DOMAIN data THEN data[uri] ELSE <<>>
        stored == StoredOutput(output, range, dateNow, cmd, input)
    IN  IF \E i \in 1..Len(outputs) : isEqual(outputs[i].range, range)
        THEN data
        ELSE [u \in DOMAIN data \cup {uri} |->
                 IF u = uri THEN Append(outputs, stored) ELSE data[u]]

\* storeOutput that overwrites the record of the same range where it stands
\* instead of removing it and pushing the new one.
storeOutputReplacesInPlace(data, uri, range, output, cmd, input, dateNow) ==
    LET outputs == IF uri \in DOMAIN data THEN data[uri] ELSE <<>>
        stored == StoredOutput(output, range, dateNow, cmd, input)
    IN  [u \in DOMAIN data \cup {uri} |->
            IF u # uri THEN data[u]
            ELSE IF \E i \in 1..Len(outputs) : isEqual(outputs[i].range, range)
            THEN [i \in 1..Len(outputs) |->
                     IF isEqual(outputs[i].range, range) THEN stored
                     ELSE outputs[i]]
            ELSE Append(outputs, stored)]

\* storeOutput with the new record put first (unshift for push).
storeOutputPrepends(data, uri, range, output, cmd, input, dateNow) ==
    LET outputs == IF uri \in DOMAIN data THEN data[uri] ELSE <<>>
        stored == StoredOutput(output, range, dateNow, cmd, input)
    IN  [u \in DOMAIN data \cup {uri} |->
            IF u = uri THEN <<stored>> \o WithoutRange(outputs, range)
            ELSE data[u]]

\* storeOutput without the filter that drops the record of the same range.
storeOutputKeepsDuplicate(data, uri, range, output, cmd, input, dateNow) ==
    LET outputs == IF uri \in DOMAIN data THEN data[uri] ELSE <<>>
        stored == StoredOutput(output, range, dateNow, cmd, input)
    IN  [u \in DOMAIN data \cup {uri} |->
            IF u = uri THEN Append(outputs, stored) ELSE data[u]]

storeOutput(data, uri, range, output, cmd, input, dateNow) ==
    LET outputs == IF uri \in DOMAIN data THEN data[uri] ELSE <<>>
        stored == StoredOutput(output, range, dateNow, cmd, input)
    IN  [u \in DOMAIN data \cup {uri} |->
            IF u = uri THEN Append(WithoutRange(outputs, range), stored)
            ELSE data[u]]

\* The loop of provideHover and getOutputAtPosition: the first stored output
\* whose range contains the position, <<>> when there is none.
FirstContaining(outputs, position) ==
    LET hits == {i \in 1..Len(outputs) : Contains(outputs[i].range, position)}
    IN  IF hits = {} THEN <<>>
        ELSE <<outputs[CHOOSE i \in hits : \A j \in hits : i <= j]>>

\* provideHover that shows the document's first record when none contains
\* the position.
provideHoverFallsBack(data, uri, position) ==
    IF uri \notin DOMAIN data THEN <<>>
    ELSE LET found == FirstContaining(data[uri], position)
             shown == IF found = <<>> THEN data[uri][1] ELSE found[1]
         IN  <<[output |-> shown.output, range |-> shown.range]>>

\* What provideHover returns: <<>> for null, else the hover's text and range.
provideHover(data, uri, position) ==
    IF uri \notin DOMAIN data THEN <<>>
    ELSE LET found == FirstContaining(data[uri], position)
         IN  IF found = <<>> THEN <<>>
             ELSE <<[output |-> found[1].output, range |-> found[1].range]>>

\* What getOutputAtPosition returns: <<>> for null, else the output.
getOutputAtPosition(data, uri, position) ==
    IF uri \notin DOMAIN data THEN <<>>
    ELSE LET found == FirstContaining(data[uri], position)
         IN  IF found = <<>> THEN <<>> ELSE <<found[1].output>>

\* clearOutput without the deletion of the emptied document entry.
clearOutputKeepsEmpty(data, uri, range) ==
    IF uri \in DOMAIN data
    THEN [data EXCEPT ![uri] = WithoutRange(data[uri], range)]
    ELSE data

\* clearOutput that drops every record sharing a position with the range.
clearOutputRemovesOverlapping(data, uri, range) ==
    IF uri \in DOMAIN data
    THEN LET Keep(stored) == \/ stored.range[2] < range[1]
                             \/ range[2] < stored.range[1]
             outputs == SelectSeq(data[uri], Keep)
         IN  IF Len(outputs) = 0 THEN MapDelete(data, uri)
             ELSE [data EXCEPT ![uri] = outputs]
    ELSE data

\* clearOutput that deletes the document entry when no record has the range.
clearOutputClearsDocument(data, uri, range) ==
    IF uri \in DOMAIN data
    THEN LET outputs == WithoutRange(data[uri], range)
         IN  IF Len(outputs) = 0 \/ Len(outputs) = Len(data[uri])
             THEN MapDelete(data, uri)
             ELSE [data EXCEPT ![uri] = outputs]
    ELSE data


clearOutput(data, uri, range) ==
    IF uri \in DOMAIN data
    THEN LET outputs == WithoutRange(data[uri], range)
         IN  IF Len(outputs) = 0 THEN MapDelete(data, uri)
             ELSE [data EXCEPT ![uri] = outputs]
    ELSE data

\* The sweep's filter keeping a record whose age equals MAX_AGE_MS.
FreshInclusive(outputs, dateNow) ==
    LET Keep(stored) == dateNow - stored.timestamp <= MAX_AGE_MS
    IN  SelectSeq(outputs, Keep)

\* outputs.filter(stored => now - stored.timestamp < MAX_AGE_MS)
Fresh(outputs, dateNow) ==
    LET Keep(stored) == dateNow - stored.timestamp < MAX_AGE_MS
    IN  SelectSeq(outputs, Keep)

cleanupStaleData(data, dateNow) ==
    [u \in {v \in DOMAIN data : Len(Fresh(data[v], dateNow)) # 0} |->
        Fresh(data[u], dateNow)]

\* onDocumentClosed clearing the whole map.
onDocumentClosedClearsAll(data, uri) == EmptyMap

\* onDocumentClosed deleting under a key the map does not use (the file
\* name for the uri string): nothing is removed.
onDocumentClosedWrongKey(data, uri) == MapDelete(data, "a")


onDocumentClosed(data, uri) == MapDelete(data, uri)

\* onDocumentChanged dropping the records of the edited document.
onDocumentChangedInvalidates(data, uri) == MapDelete(data, uri)

\* onDocumentChanged: the hover data is kept as it is.
onDocumentChanged(data, uri) == data

\* The state a new HoverManager is in: no data, the cleanup timer started.
NoStore ==
    /\ hoverData = EmptyMap
    /\ cleanupInterval = TRUE
    /\ now = 0
    /\ ticks = 0
    /\ last = [op |-> "none", uri |-> "", range |-> <<0, 0>>, position |-> 0,
               output |-> <<>>, hit |-> FALSE, result |-> <<>>]

\* No command has been invoked; every document is open and the interval
\* timer started by the constructor has its first firing ahead.
NoRequest ==
    [status |-> "none", count |-> 0, editor |-> <<>>, range |-> <<0, 0>>,
     actualCommand |-> <<>>, result |-> <<>>]

\* JsonPoster.post has not been called.
NoPost ==
    [status |-> "idle", url |-> <<>>, content |-> <<>>, requests |-> 0,
     settled |-> "pending", result |-> <<>>]

\* resolveCustomTextEditor has run: let isUpdatingDocument = false;
NoPanel ==
    [isUpdatingDocument |-> FALSE, sent |-> 0, inbox |-> 0, applying |-> 0,
     resuming |-> 0, timers |-> 0,
     lastChange |-> [source |-> "none", forwarded |-> FALSE]]

NoHost ==
    /\ openDocs = Docs
    /\ request = NoRequest
    /\ popup = <<>>
    /\ shownMessages = {}
    /\ nextSweep = CLEANUP_INTERVAL_MS
    /\ handlers = <<>>
    /\ poster = NoPost
    /\ panel = NoPanel

\* No command has been dispatched yet.
NoProcess ==
    /\ shellArgv = <<>>
    /\ proc = "none"
    /\ streamsHeld = FALSE
    /\ launchError = ""
    /\ exitCode = <<>>
    /\ stdout = <<>>
    /\ stderr = <<>>
    /\ timedOut = FALSE
    /\ timerArmed = FALSE
    /\ killed = FALSE
    /\ promise = "pending"
    /\ delivered = <<>>
    /\ resolveCalls = 0
    /\ errorSeen = FALSE
    /\ closeSeen = FALSE

(***************************************************************************)
(* executeCommand: the closure the listeners and the timer callback share. *)
(* A handler is a function from the closure's state to its next state.     *)
(***************************************************************************)
Closure ==
    [stdout |-> stdout, stderr |-> stderr, timedOut |-> timedOut,
     timerArmed |-> timerArmed, promise |-> promise, delivered |-> delivered,
     resolveCalls |-> resolveCalls]

Commit(c) ==
    /\ stdout' = c.stdout
    /\ stderr' = c.stderr
    /\ timedOut' = c.timedOut
    /\ timerArmed' = c.timerArmed
    /\ promise' = c.promise
    /\ delivered' = c.delivered
    /\ resolveCalls' = c.resolveCalls

\* A callback in place of the promise: every call hands its value over.
resolveEveryCall(c, value) ==
    [c EXCEPT !.resolveCalls = @ + 1,
              !.promise = "fulfilled",
              !.delivered = Append(@, value)]

\* resolve of "new Promise((resolve) => ...)": the first call settles the
\* promise, later calls do nothing.
resolve(c, value) ==
    [c EXCEPT !.resolveCalls = @ + 1,
              !.promise = IF @ = "pending" THEN "fulfilled" ELSE @,
              !.delivered = IF c.promise = "pending" THEN Append(@, value) ELSE @]

\* The promise's other way of settling; the code never takes it.
reject(c) ==
    [c EXCEPT !.promise = IF @ = "pending" THEN "rejected" ELSE @]

clearTimeout(c) == [c EXCEPT !.timerArmed = FALSE]

TimedOutMessage(t) == <<"Command execution timed out after ", ToString(t), "ms">>

CodeText(code) == IF code = <<>> THEN "null" ELSE ToString(code[1])

ExitedMessage(code) == <<"Command exited with code ", CodeText(code)>>

FailedMessage(message) == <<"Failed to execute command: ">> \o message

\* The success branch without its fallback to stderr.
onCloseStdoutOnly(c, code, t) ==
    LET c1 == clearTimeout(c)
    IN  IF c1.timedOut
        THEN resolve(c1, [success |-> FALSE, output |-> <<>>,
                          error |-> TimedOutMessage(t)])
        ELSE IF code # <<0>>
        THEN resolve(c1, [success |-> FALSE, output |-> c1.stdout,
                          error |-> IF c1.stderr # <<>> THEN c1.stderr
                                    ELSE ExitedMessage(code)])
        ELSE resolve(c1, [success |-> TRUE, output |-> c1.stdout])

\* The failure branch reporting the exit code even when stderr has text.
onCloseIgnoresStderr(c, code, t) ==
    LET c1 == clearTimeout(c)
    IN  IF c1.timedOut
        THEN resolve(c1, [success |-> FALSE, output |-> <<>>,
                          error |-> TimedOutMessage(t)])
        ELSE IF code # <<0>>
        THEN resolve(c1, [success |-> FALSE, output |-> c1.stdout,
                          error |-> ExitedMessage(code)])
        ELSE resolve(c1, [success |-> TRUE,
                          output |-> IF c1.stdout # <<>> THEN c1.stdout
                                     ELSE c1.stderr])

\* process.on('close', (code) => ...)
onClose(c, code, t) ==
    LET c1 == clearTimeout(c)
    IN  IF c1.timedOut
        THEN resolve(c1, [success |-> FALSE, output |-> <<>>,
                          error |-> TimedOutMessage(t)])
        ELSE IF code # <<0>>
        THEN resolve(c1, [success |-> FALSE, output |-> c1.stdout,
                          error |-> IF c1.stderr # <<>> THEN c1.stderr
                                    ELSE ExitedMessage(code)])
        ELSE resolve(c1, [success |-> TRUE,
                          output |-> IF c1.stdout # <<>> THEN c1.stdout
                                     ELSE c1.stderr])

\* The error listener rejecting the promise.
onErrorRejects(c, message) == reject(clearTimeout(c))

\* The error listener leaving the timer armed.
onErrorKeepsTimer(c, message) ==
    resolve(c, [success |-> FALSE, output |-> <<>>,
                error |-> FailedMessage(message)])

\* process.on('error', (error) => ...)
onError(c, message) ==
    resolve(clearTimeout(c), [success |-> FALSE, output |-> <<>>,
                              error |-> FailedMessage(message)])

\* The setTimeout callback: timedOut = true; process.kill().  ChildProcess.kill
\* emits 'error' synchronously when the signal cannot be sent (EPERM), which
\* runs the error listener inside the callback.
onTimeout(c, killOutcome) ==
    LET c1 == [c EXCEPT !.timedOut = TRUE, !.timerArmed = FALSE]
    IN  IF killOutcome = "EPERM" THEN onError(c1, <<"kill EPERM">>) ELSE c1

\* process.stdout.on('data', ...) and process.stderr.on('data', ...)
onStdoutData(c, data) == [c EXCEPT !.stdout = @ \o data]
onStderrData(c, data) == [c EXCEPT !.stderr = @ \o data]

\* The interpreter and its flag.
\* The binary taken from the setting when it names neither known shell.
ShellFromSetting(shell) ==
    IF shell = "powershell" THEN "powershell.exe"
    ELSE IF shell = "bash" THEN "/bin/bash"
    ELSE shell

Shell(shell) == IF shell = "powershell" THEN "powershell.exe" ELSE "/bin/bash"
ShellFlag(shell) == IF shell = "powershell" THEN "-Command" ELSE "-c"

(***************************************************************************)
(* The child process, as its events reach the listeners.                   *)
(***************************************************************************)
SpawnErrnos == {"ENOENT", "EACCES"}
ErrnoCode(name) == IF name = "ENOENT" THEN <<-2>> ELSE <<-13>>
ExitStatuses == {<<n>> : n \in 0..MaxExitCode}
CloseCodes == ExitStatuses \cup {<<>>}
Timeouts == {1000, 5000}
ExecTexts == {<<"a">>, <<SQUOTE>>}
ExecTemplates == {<<"e", " ">> \o Placeholder, <<"x">>}
StdoutChunk == <<"o">>
StderrChunk == <<"w">>

Init ==
    /\ pc = "idle"
    /\ selectedText = <<>>
    /\ commandTemplate = <<>>
    /\ shellType = "bash"
    /\ timeout = DefaultTimeout
    /\ sanitizedInput = <<>>
    /\ substituted = <<>>
    /\ command = <<>>
    /\ NoProcess
    /\ NoStore
    /\ NoHost

\* execute(selectedText, commandTemplate, shellType, timeout) up to the end
\* of executeCommand's promise executor: the child is spawned (or the spawn
\* has failed and its 'error' is queued), the timer is armed and the
\* listeners are attached.
Execute(text, template, shell, t, launch, held) ==
    /\ UNCHANGED <<storeVars, hostVars>>
    /\ pc = "idle"
    /\ pc' = "spawned"
    /\ selectedText' = text
    /\ commandTemplate' = template
    /\ shellType' = shell
    /\ timeout' = t
    /\ sanitizedInput' = sanitizeInput(text)
    /\ substituted' = substitute(template, sanitizeInput(text))
    /\ command' = buildCommand(template, sanitizeInput(text), shell)
    /\ shellArgv' = <<Shell(shell), ShellFlag(shell)>>
    /\ proc' = IF launch = "ok" THEN "alive" ELSE "spawnfail"
    /\ launchError' = IF launch = "ok" THEN "" ELSE launch
    /\ streamsHeld' = (launch = "ok" /\ held)
    /\ exitCode' = <<>>
    /\ stdout' = <<>>
    /\ stderr' = <<>>
    /\ timedOut' = FALSE
    /\ timerArmed' = TRUE
    /\ UNCHANGED <<killed, promise, delivered, resolveCalls, errorSeen, closeSeen>>

\* A failed spawn emits 'error' on the next tick, before any timer can fire,
\* and the child then emits 'close' with the negative errno.
SpawnError ==
    /\ UNCHANGED <<storeVars, hostVars>>
    /\ proc = "spawnfail"
    /\ Commit(onError(Closure, <<"spawn ", shellArgv[1], " ", launchError>>))
    /\ errorSeen' = TRUE
    /\ proc' = "failclosing"
    /\ exitCode' = ErrnoCode(launchError)
    /\ UNCHANGED <<pc, requestVars, sanitizedInput, substituted, command,
                   shellArgv, streamsHeld, launchError, killed, closeSeen>>

StdoutData ==
    /\ UNCHANGED <<storeVars, hostVars>>
    /\ proc \in {"alive", "exited"}
    /\ Len(stdout) < MaxChunks
    /\ Commit(onStdoutData(Closure, StdoutChunk))
    /\ UNCHANGED <<pc, requestVars, sanitizedInput, substituted, command,
                   shellArgv, proc, streamsHeld, launchError, exitCode,
                   killed, errorSeen, closeSeen>>

StderrData ==
    /\ UNCHANGED <<storeVars, hostVars>>
    /\ proc \in {"alive", "exited"}
    /\ Len(stderr) < MaxChunks
    /\ Commit(onStderrData(Closure, StderrChunk))
    /\ UNCHANGED <<pc, requestVars, sanitizedInput, substituted, command,
                   shellArgv, proc, streamsHeld, launchError, exitCode,
                   killed, errorSeen, closeSeen>>

\* The child ends, by itself or by a signal; 'close' follows once its stdio
\* pipes are closed.
ProcessExit(code) ==
    /\ UNCHANGED <<storeVars, hostVars>>
    /\ proc = "alive"
    /\ proc' = "exited"
    /\ exitCode' = code
    /\ UNCHANGED <<pc, requestVars, sanitizedInput, substituted, command,
                   shellArgv, streamsHeld, launchError, stdout, stderr,
                   timedOut, timerArmed, killed, promise, delivered,
                   resolveCalls, errorSeen, closeSeen>>

\* The timer fires.  kill() on a live child sends the signal or fails with
\* EPERM; on a child that has already ended it does nothing.
TimerFire(killOutcome) ==
    /\ UNCHANGED <<storeVars, hostVars>>
    /\ timerArmed
    /\ proc \in {"alive", "exited"}
    /\ proc = "exited" => killOutcome = "gone"
    /\ proc = "alive" => killOutcome \in {"sent", "EPERM"}
    /\ Commit(onTimeout(Closure, killOutcome))
    /\ killed' = (killed \/ killOutcome = "sent")
    /\ errorSeen' = (errorSeen \/ killOutcome = "EPERM")
    /\ UNCHANGED <<pc, requestVars, sanitizedInput, substituted, command,
                   shellArgv, proc, streamsHeld, launchError, exitCode,
                   closeSeen>>

\* 'close': the child has ended and its stdio pipes are closed.
CloseEvent ==
    /\ UNCHANGED <<storeVars, hostVars>>
    /\ \/ proc = "exited" /\ ~streamsHeld
       \/ proc = "failclosing"
    /\ Commit(onClose(Closure, exitCode, timeout))
    /\ closeSeen' = TRUE
    /\ proc' = "closed"
    /\ UNCHANGED <<pc, requestVars, sanitizedInput, substituted, command,
                   shellArgv, streamsHeld, launchError, exitCode, killed,
                   errorSeen>>

Next ==
    \/ \E text \in ExecTexts, template \in ExecTemplates, shell \in ShellTypes,
          t \in Timeouts, launch \in {"ok"} \cup SpawnErrnos, held \in BOOLEAN :
          Execute(text, template, shell, t, launch, held)
    \/ SpawnError
    \/ StdoutData
    \/ StderrData
    \/ \E code \in CloseCodes : ProcessExit(code)
    \/ \E killOutcome \in {"sent", "EPERM", "gone"} : TimerFire(killOutcome)
    \/ CloseEvent

Spec == Init /\ [][Next]_vars

\* Every enabled step is eventually taken: the event loop runs the callbacks
\* of the events that have occurred.
LiveSpec == Init /\ [][Next]_vars /\ WF_vars(Next)

(***************************************************************************)
(* Claims about executeCommand.                                            *)
(***************************************************************************)
IsCommandResult(r) ==
    /\ DOMAIN r \in {{"success", "output"}, {"success", "output", "error"}}
    /\ r.success \in BOOLEAN

TimeoutResult ==
    [success |-> FALSE, output |-> <<>>, error |-> TimedOutMessage(timeout)]

C2_ExactlyOneResult ==
    /\ Len(delivered) <= 1
    /\ (errorSeen \/ closeSeen) => Len(delivered) = 1

\* C2 witness: the error listener and the close listener have both called
\* resolve for the same invocation.
C2_Witness ==
    /\ errorSeen
    /\ closeSeen
    /\ resolveCalls >= 2
    /\ Len(delivered) = 1

\* C3: whenever the timer has fired, the reported result is the timeout
\* result, whichever other terminal event is handled as well.
C3_TimeoutWins ==
    (timedOut /\ Len(delivered) > 0) => delivered[1] = TimeoutResult

\* C4: when the timer fires before the process has closed, the process is
\* killed and the result has success = false, an error message naming
\* timeoutMs and the empty output: no stdout or stderr text is returned.
C4_TimeoutDiscardsOutput ==
    /\ timedOut => (killed \/ proc # "alive")
    /\ (timedOut /\ Len(delivered) > 0) =>
           /\ delivered[1].success = FALSE
           /\ delivered[1].output = <<>>
           /\ delivered[1].error = TimedOutMessage(timeout)

\* C5: once the timer has fired, execute eventually returns a result,
\* whatever the killed process and its streams do, and that result is the
\* timeout failure.
C5_TimeoutEventuallyReported ==
    timedOut ~> (promise = "fulfilled" /\ delivered = <<TimeoutResult>>)

\* C6: on close with exit code 0 and no timeout the result is success with
\* output stdout when stdout is non-empty and stderr otherwise, and no error
\* message.
C6_ExitZeroResult ==
    (closeSeen /\ exitCode = <<0>> /\ ~timedOut) =>
        delivered = <<[success |-> TRUE,
                       output |-> IF stdout # <<>> THEN stdout ELSE stderr]>>

\* C6 witness: a process that wrote to stderr only has closed with code 0.
C6_Witness ==
    /\ closeSeen
    /\ exitCode = <<0>>
    /\ ~timedOut
    /\ stdout = <<>>
    /\ stderr # <<>>

\* C7: on close with a nonzero exit status and no timeout the result is
\* success = false, output stdout, and error stderr when stderr is non-empty
\* and otherwise a message that contains the exit code.
C7_ExitNonzeroResult ==
    (closeSeen /\ exitCode \in ExitStatuses \ {<<0>>} /\ ~timedOut) =>
        delivered = <<[success |-> FALSE,
                       output |-> stdout,
                       error |-> IF stderr # <<>> THEN stderr
                                 ELSE <<"Command exited with code ",
                                        ToString(exitCode[1])>>]>>

\* C7 witness: a process that wrote to stdout and to stderr has closed with
\* status 1.
C7_Witness ==
    /\ closeSeen
    /\ exitCode = <<1>>
    /\ ~timedOut
    /\ stdout # <<>>
    /\ stderr # <<>>

BuildInit ==
    /\ pc = "called"
    /\ selectedText \in Inputs
    /\ commandTemplate \in Templates
    /\ shellType \in ShellTypes
    /\ timeout = DefaultTimeout
    /\ sanitizedInput = <<>>
    /\ substituted = <<>>
    /\ command = <<>>
    /\ NoProcess
    /\ NoStore
    /\ NoHost

\* const sanitizedInput = this.sanitizeInput(selectedText)
SanitizeStep ==
    /\ UNCHANGED <<storeVars, hostVars>>
    /\ pc = "called"
    /\ sanitizedInput' = sanitizeInput(selectedText)
    /\ pc' = "sanitized"
    /\ UNCHANGED <<requestVars, substituted, command, processVars>>

\* const command = this.buildCommand(commandTemplate, sanitizedInput, shellType)
BuildStep ==
    /\ UNCHANGED <<storeVars, hostVars>>
    /\ pc = "sanitized"
    /\ substituted' = substitute(commandTemplate, sanitizedInput)
    /\ command' = buildCommand(commandTemplate, sanitizedInput, shellType)
    /\ pc' = "built"
    /\ UNCHANGED <<requestVars, sanitizedInput, processVars>>

BuildNext == SanitizeStep \/ BuildStep

BuildSpec == BuildInit /\ [][BuildNext]_vars

(***************************************************************************)
(* Reference functions the claims compare the code with.                   *)
(***************************************************************************)
\* Every special character preceded by one backslash, the others kept.
RECURSIVE EscapeEach(_)
EscapeEach(s) ==
    IF s = <<>> THEN <<>>
    ELSE (IF Head(s) \in Special THEN <<BACKSLASH, Head(s)>> ELSE <<Head(s)>>)
         \o EscapeEach(Tail(s))

\* Every occurrence of pat in s replaced by text, text taken verbatim.
RECURSIVE VerbatimFrom(_, _, _, _)
VerbatimFrom(s, pat, text, i) ==
    IF i > Len(s) THEN <<>>
    ELSE IF MatchAt(s, pat, i)
    THEN text \o VerbatimFrom(s, pat, text, i + Len(pat))
    ELSE <<s[i]>> \o VerbatimFrom(s, pat, text, i + 1)

\* C9: sanitizeInput returns the input with each backslash, double quote,
\* single quote, backtick and dollar sign preceded by exactly one added
\* backslash and every other character unchanged (the added backslashes are
\* not escaped again).
C9_SanitizeEscapesEachOnce ==
    pc \in {"sanitized", "built"} => sanitizedInput = EscapeEach(selectedText)

\* C9 witness: an input holding a backslash and another special character
\* has been sanitized.
C9_Witness ==
    /\ pc = "sanitized"
    /\ selectedText = <<BACKSLASH, DQUOTE>>
    /\ sanitizedInput = <<BACKSLASH, BACKSLASH, BACKSLASH, DQUOTE>>

\* C10: the command before the shell-specific pass is the template with
\* every occurrence of the placeholder replaced by the sanitized input
\* verbatim, all other template characters left in place.
C10_PlaceholderReplacedVerbatim ==
    pc = "built" =>
        substituted = VerbatimFrom(commandTemplate, Placeholder, sanitizedInput, 1)

\* TRUE iff the placeholder occurs nowhere in the template.
NoPlaceholder(template) ==
    \A i \in 1..Len(template) : ~MatchAt(template, Placeholder, i)

\* Every single quote doubled, the other characters kept.
RECURSIVE DoubleQuotes(_)
DoubleQuotes(s) ==
    IF s = <<>> THEN <<>>
    ELSE (IF Head(s) = SQUOTE THEN <<SQUOTE, SQUOTE>> ELSE <<Head(s)>>)
         \o DoubleQuotes(Tail(s))

RECURSIVE BashWord(_, _)
BashWord(s, i) ==
    IF i > Len(s) THEN <<>>
    ELSE IF s[i] = BACKSLASH
    THEN (IF i < Len(s) THEN <<s[i + 1]>> \o BashWord(s, i + 2)
          ELSE <<BACKSLASH>>)
    ELSE IF s[i] \in {DQUOTE, SQUOTE, BACKTICK, DOLLAR, "&"}
    THEN <<"(shell syntax)">>
    ELSE <<s[i]>> \o BashWord(s, i + 1)

BashEchoStdout(cmd) == BashWord(cmd, 6) \o <<"\n">>

\* The characters of a text.
Chars(s) == {s[i] : i \in 1..Len(s)}

RECURSIVE SumLen(_, _)
SumLen(data, uris) ==
    IF uris = {} THEN 0
    ELSE LET u == CHOOSE v \in uris : TRUE
         IN  Len(data[u]) + SumLen(data, uris \ {u})

TotalRecords(data) == SumLen(data, DOMAIN data)

\* The command and input texts stored with an output.
StoreCommand == <<"x">>
StoreInput == <<"a">>

\* The clock advances by 1 ms or by MAX_AGE_MS - 1 ms, so that a record's age
\* passes through MAX_AGE_MS - 1, MAX_AGE_MS and beyond.
TickSteps == {1, MAX_AGE_MS - 1}

HasRange(data, uri, range) ==
    /\ uri \in DOMAIN data
    /\ \E i \in 1..Len(data[uri]) : isEqual(data[uri][i].range, range)

Op(name, uri, range, position, output, hit, result) ==
    [op |-> name, uri |-> uri, range |-> range, position |-> position,
     output |-> output, hit |-> hit, result |-> result]

StoreInit ==
    /\ pc = "idle"
    /\ selectedText = <<>>
    /\ commandTemplate = <<>>
    /\ shellType = "bash"
    /\ timeout = DefaultTimeout
    /\ sanitizedInput = <<>>
    /\ substituted = <<>>
    /\ command = <<>>
    /\ NoProcess
    /\ NoStore
    /\ NoHost

execVars == <<pc, requestVars, sanitizedInput, substituted, command, processVars,
              hostVars>>

\* hoverManager.storeOutput(document, range, output, command, input);
\* last.hit: a record with this very range was replaced.
StoreOutput(uri, range, output) ==
    /\ TotalRecords(storeOutput(hoverData, uri, range, output, StoreCommand,
                                StoreInput, now)) <= MaxRecords
    /\ hoverData' = storeOutput(hoverData, uri, range, output, StoreCommand,
                                StoreInput, now)
    /\ last' = Op("store", uri, range, 0, output,
                  HasRange(hoverData, uri, range), <<>>)
    /\ UNCHANGED <<cleanupInterval, now, ticks, execVars>>

\* The host asks for the hover at a position.
ProvideHover(uri, position) ==
    /\ last' = Op("hover", uri, <<0, 0>>, position, <<>>, FALSE,
                  provideHover(hoverData, uri, position))
    /\ UNCHANGED <<hoverData, cleanupInterval, now, ticks, execVars>>

GetOutputAtPosition(uri, position) ==
    /\ last' = Op("get", uri, <<0, 0>>, position, <<>>, FALSE,
                  getOutputAtPosition(hoverData, uri, position))
    /\ UNCHANGED <<hoverData, cleanupInterval, now, ticks, execVars>>

\* hoverManager.clearOutput(document, range);
\* last.hit: the document held a record with this very range.
ClearOutput(uri, range) ==
    /\ hoverData' = clearOutput(hoverData, uri, range)
    /\ last' = Op("clear", uri, range, 0, <<>>,
                  HasRange(hoverData, uri, range), <<>>)
    /\ UNCHANGED <<cleanupInterval, now, ticks, execVars>>

\* The cleanup timer fires: cleanupStaleData();
\* last.hit: a record was exactly MAX_AGE_MS old.
CleanupStaleData ==
    /\ cleanupInterval
    /\ hoverData' = cleanupStaleData(hoverData, now)
    /\ last' = Op("sweep", "", <<0, 0>>, 0, <<>>,
                  \E u \in DOMAIN hoverData : \E i \in 1..Len(hoverData[u]) :
                      now - hoverData[u][i].timestamp = MAX_AGE_MS,
                  <<>>)
    /\ UNCHANGED <<cleanupInterval, now, ticks, execVars>>

\* onDidCloseTextDocument: hoverManager.onDocumentClosed(document);
\* last.hit: the document held a record created at this instant.
DocumentClosed(uri) ==
    /\ hoverData' = onDocumentClosed(hoverData, uri)
    /\ last' = Op("close", uri, <<0, 0>>, 0, <<>>,
                  /\ uri \in DOMAIN hoverData
                  /\ \E i \in 1..Len(hoverData[uri]) :
                         hoverData[uri][i].timestamp = now,
                  <<>>)
    /\ UNCHANGED <<cleanupInterval, now, ticks, execVars>>

\* onDidChangeTextDocument: hoverManager.onDocumentChanged(event.document);
\* last.hit: the document has records.
DocumentChanged(uri) ==
    /\ hoverData' = onDocumentChanged(hoverData, uri)
    /\ last' = Op("change", uri, <<0, 0>>, 0, <<>>, uri \in DOMAIN hoverData,
                  <<>>)
    /\ UNCHANGED <<cleanupInterval, now, ticks, execVars>>

\* dispose that empties the map and leaves the interval running.
DisposeKeepsTimer ==
    /\ cleanupInterval
    /\ hoverData # EmptyMap
    /\ hoverData' = EmptyMap
    /\ last' = Op("dispose", "", <<0, 0>>, 0, <<>>, TRUE, <<>>)
    /\ UNCHANGED <<cleanupInterval, now, ticks, execVars>>

\* deactivate: hoverManager.dispose(); last.hit: the store held records.
Dispose ==
    /\ cleanupInterval
    /\ cleanupInterval' = FALSE
    /\ hoverData' = EmptyMap
    /\ last' = Op("dispose", "", <<0, 0>>, 0, <<>>, hoverData # EmptyMap, <<>>)
    /\ UNCHANGED <<now, ticks, execVars>>

\* Time passes.
Tick(step) ==
    /\ ticks < MaxTicks
    /\ ticks' = ticks + 1
    /\ now' = now + step
    /\ last' = Op("tick", "", <<0, 0>>, 0, <<>>, FALSE, <<>>)
    /\ UNCHANGED <<hoverData, cleanupInterval, execVars>>

StoreNext ==
    \/ \E uri \in Docs, range \in Ranges, output \in Outputs :
          StoreOutput(uri, range, output)
    \/ \E uri \in Docs, position \in Positions : ProvideHover(uri, position)
    \/ \E uri \in Docs, position \in Positions : GetOutputAtPosition(uri, position)
    \/ \E uri \in Docs, range \in Ranges : ClearOutput(uri, range)
    \/ CleanupStaleData
    \/ \E uri \in Docs : DocumentClosed(uri)
    \/ \E uri \in Docs : DocumentChanged(uri)
    \/ Dispose
    \/ \E step \in TickSteps : Tick(step)

StoreSpec == StoreInit /\ [][StoreNext]_vars

(***************************************************************************)
(* C13 (as stated): from any store state, storeOutput(document, span,      *)
(* text) followed immediately by a lookup at any position inside the span  *)
(* returns exactly the record just inserted, its output text and its span. *)
(***************************************************************************)
Inserted == [output |-> last.output, range |-> last.range]

C13_StoreThenLookupExact ==
    last.op = "store" =>
        \A position \in Positions :
            Contains(last.range, position) =>
                /\ provideHover(hoverData, last.uri, position) = <<Inserted>>
                /\ getOutputAtPosition(hoverData, last.uri, position)
                       = <<last.output>>

\* A record of the document with another range than the one just stored
\* contains the position.
Shadowed(position) ==
    \E i \in 1..Len(hoverData[last.uri]) :
        /\ ~isEqual(hoverData[last.uri][i].range, last.range)
        /\ Contains(hoverData[last.uri][i].range, position)

(***************************************************************************)
(* C13 (amended): storeOutput followed immediately by a lookup at a        *)
(* position inside the span returns the record just inserted when no       *)
(* record of the document with a different span contains the position;     *)
(* otherwise it returns the earliest inserted of those other records.      *)
(***************************************************************************)
C13_StoreThenLookupAmended ==
    last.op = "store" =>
        \A position \in Positions :
            Contains(last.range, position) =>
                LET outs == hoverData[last.uri]
                    hover == provideHover(hoverData, last.uri, position)
                    text == getOutputAtPosition(hoverData, last.uri, position)
                IN  IF ~Shadowed(position)
                    THEN hover = <<Inserted>> /\ text = <<last.output>>
                    ELSE \E i \in 1..Len(outs) :
                            /\ ~isEqual(outs[i].range, last.range)
                            /\ Contains(outs[i].range, position)
                            /\ \A j \in 1..(i - 1) :
                                   ~Contains(outs[j].range, position)
                            /\ hover = <<[output |-> outs[i].output,
                                          range |-> outs[i].range]>>
                            /\ text = <<outs[i].output>>

\* Both branches: the document holds <<0, 0>> and the new <<0, 1>>; position 1
\* shows the new record, position 0 the earlier one.
C13_Witness ==
    /\ last.op = "store"
    /\ last.range = <<0, 1>>
    /\ Len(hoverData[last.uri]) = 2
    /\ Shadowed(0)
    /\ ~Shadowed(1)
    /\ provideHover(hoverData, last.uri, 1) = <<Inserted>>

(***************************************************************************)
(* C14: a lookup at a position that no stored range of the document        *)
(* contains, or for a document without an entry, returns nothing and       *)
(* leaves the store unchanged.                                             *)
(***************************************************************************)
Miss(uri, position) ==
    \/ uri \notin DOMAIN hoverData
    \/ \A i \in 1..Len(hoverData[uri]) :
           ~Contains(hoverData[uri][i].range, position)

C14_MissIsAbsent ==
    [][(last'.op \in {"hover", "get"} /\ Miss(last'.uri, last'.position))
          => (last'.result = <<>> /\ hoverData' = hoverData)]_vars

C14_Witness ==
    /\ last.op = "hover"
    /\ last.uri \in DOMAIN hoverData
    /\ Miss(last.uri, last.position)
    /\ last.result = <<>>

(***************************************************************************)
(* C15: a document's list holds at most one record per exact range;        *)
(* storing again with an identical range replaces the record, so the one   *)
(* record of that range carries the second text and a lookup that shows    *)
(* that range shows the second text.                                       *)
(***************************************************************************)
WithRange(uri, range) ==
    {i \in 1..Len(hoverData[uri]) : isEqual(hoverData[uri][i].range, range)}

C16_NoEmptyEntry ==
    \A uri \in DOMAIN hoverData : Len(hoverData[uri]) >= 1

\* clearOutput removed the last record of a document, and its entry with it.
C16_Witness ==
    /\ last.op = "clear"
    /\ last.hit
    /\ last.uri \notin DOMAIN hoverData
    /\ hoverData # EmptyMap

(***************************************************************************)
(* C17: clearOutput(document, range) removes exactly the record whose      *)
(* range equals the given one and keeps every other record of the          *)
(* document, overlapping ones included, in their order; a document left    *)
(* without records loses its entry.  Other documents are untouched.        *)
(***************************************************************************)
RemoveAt(outputs, i) ==
    SubSeq(outputs, 1, i - 1) \o SubSeq(outputs, i + 1, Len(outputs))

C17_ClearRemovesExactRange ==
    [][(last'.op = "clear" /\ last'.hit) =>
          \E i \in 1..Len(hoverData[last'.uri]) :
              LET rest == RemoveAt(hoverData[last'.uri], i)
              IN  /\ isEqual(hoverData[last'.uri][i].range, last'.range)
                  /\ IF rest = <<>>
                     THEN DOMAIN hoverData' = DOMAIN hoverData \ {last'.uri}
                     ELSE /\ DOMAIN hoverData' = DOMAIN hoverData
                          /\ hoverData'[last'.uri] = rest
                  /\ \A uri \in DOMAIN hoverData \ {last'.uri} :
                         hoverData'[uri] = hoverData[uri]]_vars

\* <<0, 0>> was cleared and a record that overlaps it is still there.
C17_Witness ==
    /\ last.op = "clear"
    /\ last.hit
    /\ last.range = <<0, 0>>
    /\ last.uri \in DOMAIN hoverData
    /\ \E i \in 1..Len(hoverData[last.uri]) :
           hoverData[last.uri][i].range = <<0, 1>>

(***************************************************************************)
(* C18: clearOutput for a document without an entry, or for a range that   *)
(* no record of the document has, leaves the whole store unchanged.        *)
(***************************************************************************)
C18_ClearMissIsNoOp ==
    [][(last'.op = "clear" /\ ~HasRange(hoverData, last'.uri, last'.range))
          => hoverData' = hoverData]_vars

\* The document has records, none with the range asked for.
C18_Witness ==
    /\ last.op = "clear"
    /\ ~last.hit
    /\ last.uri \in DOMAIN hoverData
    /\ Cardinality(DOMAIN hoverData) = 2

(***************************************************************************)
(* C19: a sweep removes exactly the records whose age exceeds MAX_AGE_MS   *)
(* and retains every record whose age does not exceed it, a record of age  *)
(* exactly MAX_AGE_MS included; documents left without records are         *)
(* removed.                                                                *)
(***************************************************************************)
NotExceeding(outputs, dateNow) ==
    LET Keep(stored) == ~(dateNow - stored.timestamp > MAX_AGE_MS)
    IN  SelectSeq(outputs, Keep)

C19_SweepRemovesOlderOnly ==
    [][last'.op = "sweep" =>
          /\ DOMAIN hoverData' =
                 {uri \in DOMAIN hoverData :
                      NotExceeding(hoverData[uri], now) # <<>>}
          /\ \A uri \in DOMAIN hoverData' :
                 hoverData'[uri] = NotExceeding(hoverData[uri], now)]_vars

(***************************************************************************)
(* C20: onDocumentClosed removes the document's whole entry whatever the   *)
(* age of its records; right afterwards every lookup in that document      *)
(* returns nothing.                                                        *)
(***************************************************************************)
C20_CloseRemovesDocument ==
    last.op = "close" =>
        /\ last.uri \notin DOMAIN hoverData
        /\ \A position \in Positions :
               /\ provideHover(hoverData, last.uri, position) = <<>>
               /\ getOutputAtPosition(hoverData, last.uri, position) = <<>>

\* The closed document held a record created at this very instant, and the
\* other document keeps its records.
C20_Witness ==
    /\ last.op = "close"
    /\ last.hit
    /\ hoverData # EmptyMap

(***************************************************************************)
(* C29: the sweep timer runs from construction; dispose cancels it and     *)
(* discards all records: right after dispose the store is empty, and once  *)
(* the timer is cancelled it stays cancelled and no sweep fires.           *)
(***************************************************************************)
C29_DisposeStopsSweep ==
    /\ [](/\ last.op = "none" => cleanupInterval
          /\ last.op = "dispose" => (hoverData = EmptyMap /\ ~cleanupInterval)
          /\ ~cleanupInterval => last.op # "sweep")
    /\ [][~cleanupInterval => ~cleanupInterval']_vars

\* dispose has discarded records, and the store has been used since.
C29_Witness ==
    /\ ~cleanupInterval
    /\ last.op = "store"
    /\ ticks > 0

MaxValidTimeout == 300000

NoEditorMessage == "No active editor found"
NoTextMessage == "No text selected and no word found under cursor"
TemplateWarning ==
    "Command template does not contain {{input}} placeholder. Using default template."
ShellWarning == "Invalid shell type. Using default (bash)."
TimeoutWarning == "Invalid timeout. Using default (30000ms)."

\* config.get(key, defaultValue)
Get(option, defaultValue) == IF option = <<>> THEN defaultValue ELSE option[1]

\* validateConfig: the warnings it shows.
validateConfig(template, shell, t) ==
    (IF \E i \in 1..Len(template) : MatchAt(template, Placeholder, i)
     THEN {} ELSE {TemplateWarning})
    \cup (IF shell # "bash" /\ shell # "powershell" THEN {ShellWarning} ELSE {})
    \cup (IF t <= 0 \/ t > MaxValidTimeout THEN {TimeoutWarning} ELSE {})

\* getConfig: the three settings as configured, the default for one not set.
getConfig(configured) ==
    [commandTemplate |-> Get(configured.commandTemplate, EchoTemplate),
     shellType |-> Get(configured.shellType, "bash"),
     timeout |-> Get(configured.timeout, DefaultTimeout)]

Whitespace == {" ", "\t", "\n"}

\* !selectedText || selectedText.trim().length === 0
IsBlank(text) == \A i \in 1..Len(text) : text[i] \in Whitespace

\* The handler going on with a blank selection and no word.
NothingToRunEditorOnly(editor, text, word) == editor = <<>>

\* The handler's test for having nothing to run against.
NothingToRun(editor, text, word) ==
    editor = <<>> \/ (IsBlank(text) /\ word = <<>>)

\* handleExecutionResult storing the error message without its prefix.
StoredTextNoPrefix(result) ==
    IF result.success THEN result.output
    ELSE IF result.error = <<>> THEN <<"Unknown error">> ELSE result.error

\* handleExecutionResult: the text it stores for a result.
StoredText(result) ==
    IF result.success THEN result.output
    ELSE <<"Error: ">> \o (IF result.error = <<>> THEN <<"Unknown error">>
                           ELSE result.error)

\* handleExecutionResult: the arguments of its showOutputPopup call.
PopupArgs(result) ==
    IF result.success THEN [output |-> result.output, isError |-> FALSE]
    ELSE [output |-> IF result.error = <<>> THEN <<"Unknown error">>
                     ELSE result.error,
          isError |-> TRUE]

\* Texts that begin with the characters "Error:".
ErrorLeads == {"Error: ", "Error: x"}

\* stored.output.startsWith('Error:')
startsWithError(output) == output # <<>> /\ output[1] \in ErrorLeads

\* provideHover's icon for a stored output.
hoverIcon(output) == IF startsWithError(output) THEN "error" ELSE "success"

\* The inputs of an invocation.
Editors == {<<>>} \cup {<<uri>> : uri \in openDocs}
SelectedTexts == {<<" ">>, <<DQUOTE>>}
SelectionText(selection) ==
    IF selection[1] = selection[2] THEN {<<>>} ELSE SelectedTexts
WordsAt(selection) ==
    {<<>>} \cup {<<[range |-> r, text |-> <<"a">>]>> :
                    r \in {q \in Ranges : q[1] < q[2] /\ Contains(q, selection[2])}}
Setting(template, shell, t) ==
    [commandTemplate |-> template, shellType |-> shell, timeout |-> t]
Configured ==
    {Setting(<<>>, <<>>, <<>>),
     Setting(<<>>, <<>>, <<0>>),
     Setting(<<>>, <<"powershell">>, <<MaxValidTimeout + 1>>),
     Setting(<<<<SQUOTE>> \o Placeholder>>, <<"zsh">>, <<>>),
     Setting(<<<<"x">>>>, <<>>, <<5000>>)}
StdoutChunks == {StdoutChunk, <<"Error: x">>}

\* The handler returns after showErrorMessage.
Reject(message, editor) ==
    /\ shownMessages' = {message}
    /\ request' = [NoRequest EXCEPT !.status = "rejected", !.editor = editor,
                                    !.count = request.count]
    /\ UNCHANGED <<pc, requestVars, sanitizedInput, substituted, command,
                   processVars, storeVars, openDocs, popup, nextSweep,
                   sessionVars>>

\* getConfig, then executeCommandWithProgress up to its await: the actual
\* command is computed and commandExecutor.execute has spawned the child.
Dispatch(uri, range, text, config, launch, held) ==
    /\ request.count < MaxCommands
    /\ shownMessages' = validateConfig(config.commandTemplate,
                                       config.shellType, config.timeout)
    /\ request' = [status |-> "running", count |-> request.count + 1,
                   editor |-> <<uri>>, range |-> range,
                   actualCommand |-> JsReplaceAll(config.commandTemplate,
                                                  Placeholder, text),
                   result |-> <<>>]
    /\ pc' = "spawned"
    /\ selectedText' = text
    /\ commandTemplate' = config.commandTemplate
    /\ shellType' = config.shellType
    /\ timeout' = config.timeout
    /\ sanitizedInput' = sanitizeInput(text)
    /\ substituted' = substitute(config.commandTemplate, sanitizeInput(text))
    /\ command' = buildCommand(config.commandTemplate, sanitizeInput(text),
                               config.shellType)
    /\ shellArgv' = <<Shell(config.shellType), ShellFlag(config.shellType)>>
    /\ proc' = IF launch = "ok" THEN "alive" ELSE "spawnfail"
    /\ launchError' = IF launch = "ok" THEN "" ELSE launch
    /\ streamsHeld' = (launch = "ok" /\ held)
    /\ exitCode' = <<>>
    /\ stdout' = <<>>
    /\ stderr' = <<>>
    /\ timedOut' = FALSE
    /\ timerArmed' = TRUE
    /\ UNCHANGED <<killed, promise, delivered, resolveCalls, errorSeen,
                   closeSeen, storeVars, openDocs, popup, nextSweep,
                   sessionVars>>

\* The executeCommand command handler.
InvokeCommand(editor, selection, text, word, configured, launch, held) ==
    /\ pc = "idle"
    /\ IF editor = <<>> THEN Reject(NoEditorMessage, editor)
       ELSE IF NothingToRun(editor, text, word)
       THEN Reject(NoTextMessage, editor)
       ELSE IF IsBlank(text) /\ word # <<>>
       THEN Dispatch(editor[1], word[1].range, word[1].text,
                     getConfig(configured), launch, held)
       ELSE Dispatch(editor[1], selection, text, getConfig(configured),
                     launch, held)

\* The await returns and handleExecutionResult runs; the call's closure is
\* then out of reach.
HandleResult ==
    /\ pc = "spawned"
    /\ promise = "fulfilled"
    /\ request.status = "running"
    /\ hoverData' = storeOutput(hoverData, request.editor[1], request.range,
                                StoredText(delivered[1]),
                                request.actualCommand, selectedText, now)
    /\ last' = Op("store", request.editor[1], request.range, 0,
                  StoredText(delivered[1]),
                  HasRange(hoverData, request.editor[1], request.range), <<>>)
    /\ popup' = <<PopupArgs(delivered[1])>>
    /\ request' = [request EXCEPT !.status = "handled",
                                  !.result = <<delivered[1]>>]
    /\ pc' = "idle"
    /\ shellArgv' = <<>>
    /\ proc' = "none"
    /\ streamsHeld' = FALSE
    /\ launchError' = ""
    /\ exitCode' = <<>>
    /\ stdout' = <<>>
    /\ stderr' = <<>>
    /\ timedOut' = FALSE
    /\ timerArmed' = FALSE
    /\ killed' = FALSE
    /\ promise' = "pending"
    /\ delivered' = <<>>
    /\ resolveCalls' = 0
    /\ errorSeen' = FALSE
    /\ closeSeen' = FALSE
    /\ UNCHANGED <<requestVars, sanitizedInput, substituted, command,
                   cleanupInterval, now, ticks, openDocs, shownMessages,
                   nextSweep,
                   sessionVars>>

\* The child writes a chunk to its stdout.
HostStdoutData(chunk) ==
    /\ proc \in {"alive", "exited"}
    /\ Len(stdout) < MaxChunks
    /\ Commit(onStdoutData(Closure, chunk))
    /\ UNCHANGED <<pc, requestVars, sanitizedInput, substituted, command,
                   shellArgv, proc, streamsHeld, launchError, exitCode,
                   killed, errorSeen, closeSeen, storeVars, hostVars>>

\* onDidCloseTextDocument
CloseDocument(uri) ==
    /\ uri \in openDocs
    /\ openDocs' = openDocs \ {uri}
    /\ hoverData' = onDocumentClosed(hoverData, uri)
    /\ last' = Op("close", uri, <<0, 0>>, 0, <<>>,
                  /\ uri \in DOMAIN hoverData
                  /\ \E i \in 1..Len(hoverData[uri]) :
                         hoverData[uri][i].timestamp = now,
                  <<>>)
    /\ UNCHANGED <<pc, requestVars, sanitizedInput, substituted, command,
                   processVars, cleanupInterval, now, ticks, request, popup,
                   shownMessages, nextSweep,
                   sessionVars>>

\* The user opens the document again.
OpenDocument(uri) ==
    /\ uri \notin openDocs
    /\ openDocs' = openDocs \cup {uri}
    /\ UNCHANGED <<pc, requestVars, sanitizedInput, substituted, command,
                   processVars, storeVars, request, popup, shownMessages,
                   nextSweep,
                   sessionVars>>

HostNext ==
    \/ \E editor \in Editors, selection \in Ranges, configured \in Configured,
          launch \in {"ok", "ENOENT"}, held \in {FALSE} :
          \E text \in SelectionText(selection), word \in WordsAt(selection) :
              InvokeCommand(editor, selection, text, word, configured, launch,
                            held)
    \/ HandleResult
    \/ SpawnError
    \/ \E chunk \in StdoutChunks : HostStdoutData(chunk)
    \/ StderrData
    \/ \E code \in CloseCodes : ProcessExit(code)
    \/ \E killOutcome \in {"sent", "EPERM", "gone"} : TimerFire(killOutcome)
    \/ CloseEvent
    \/ \E uri \in Docs : CloseDocument(uri)
    \/ \E uri \in Docs : OpenDocument(uri)

HostSpec == Init /\ [][HostNext]_vars

(***************************************************************************)
(* C21: once a document has been closed the store holds no record for it   *)
(* for as long as it stays closed, also when a command dispatched against  *)
(* it before the close completes after the close.                          *)
(***************************************************************************)
C21_ClosedDocumentHasNoRecord ==
    \A uri \in DOMAIN hoverData : uri \in openDocs

(***************************************************************************)
(* C23: a configured timeout outside the valid range (<= 0 or > 300000 ms) *)
(* falls back to the default: the timeout returned by getConfig and used   *)
(* to arm the execution timer is 30000 ms, with a warning.                 *)
(***************************************************************************)
C23_InvalidTimeoutFallsBack ==
    (request.status = "running" /\ TimeoutWarning \in shownMessages) =>
        timeout = DefaultTimeout

(***************************************************************************)
(* C24: for an execution that returns a result the extension performs      *)
(* exactly one storeOutput, keyed by the request's document and range,     *)
(* whose text is the result's output on success and "Error: " followed by  *)
(* the error message on failure, and it gives the same outcome to the      *)
(* popup; no other step of the handler adds a record.                      *)
(***************************************************************************)
Outcome(result) == IF result.success THEN result.output ELSE result.error

C24_OneStorePerResult ==
    [][IF request.status = "running" /\ request'.status = "handled"
       THEN LET result == delivered[1]
                uri == request.editor[1]
                text == IF result.success THEN result.output
                        ELSE <<"Error: ">> \o result.error
                with == {i \in 1..Len(hoverData'[uri]) :
                            isEqual(hoverData'[uri][i].range, request.range)}
            IN  /\ request'.result = <<result>>
                /\ Cardinality(with) = 1
                /\ \A i \in with : hoverData'[uri][i].output = text
                /\ TotalRecords(hoverData') = TotalRecords(hoverData)
                       + (IF HasRange(hoverData, uri, request.range)
                          THEN 0 ELSE 1)
                /\ \A other \in DOMAIN hoverData \ {uri} :
                       hoverData'[other] = hoverData[other]
                /\ popup' = <<[output |-> Outcome(result),
                               isError |-> ~result.success]>>
       ELSE /\ TotalRecords(hoverData') <= TotalRecords(hoverData)
            /\ popup' = popup]_vars

\* A failed execution has been stored with the prefix and shown as an error.
C24_Witness ==
    /\ request.status = "handled"
    /\ ~request.result[1].success
    /\ last.op = "store"
    /\ last.output = <<"Error: ">> \o request.result[1].error
    /\ popup = <<[output |-> request.result[1].error, isError |-> TRUE]>>
    /\ request.editor[1] \in DOMAIN hoverData

(***************************************************************************)
(* C25: with nothing to run against (no active editor, or a blank          *)
(* selection and no word under the cursor) the handler shows the error at  *)
(* once, spawns no process and leaves the store unchanged; a process is    *)
(* spawned only for an editor and a text that is not blank.                *)
(***************************************************************************)
C25_NothingToRunIsRejected ==
    /\ [](request.status = "running" =>
              (request.editor # <<>> /\ ~IsBlank(selectedText)))
    /\ [][(request'.status = "rejected" /\ request' # request) =>
              /\ shownMessages' = IF request'.editor = <<>>
                                  THEN {NoEditorMessage} ELSE {NoTextMessage}
              /\ UNCHANGED <<pc, processVars, command, hoverData, last, popup>>]_vars

\* An editor with a blank selection and no word, with a record in the store.
C25_Witness ==
    /\ request.status = "rejected"
    /\ request.editor # <<>>
    /\ shownMessages = {NoTextMessage}
    /\ hoverData # EmptyMap
    /\ pc = "idle"

(***************************************************************************)
(* C26: the hover's icon for a stored record is the error icon if and only *)
(* if the execution that produced the record failed, whatever the command  *)
(* printed.                                                                *)
(***************************************************************************)
C26_IconShowsOutcome ==
    (request.status = "handled" /\ last.op = "store") =>
        (hoverIcon(last.output) = "error" <=> ~request.result[1].success)

(***************************************************************************)
(* C27: the command text stored with a result is the command that was      *)
(* executed: the string passed to storeOutput equals the string            *)
(* CommandExecutor handed to the shell.                                    *)
(***************************************************************************)
C27_StoredCommandIsExecuted ==
    (request.status = "handled" /\ last.op = "store") =>
        \A i \in 1..Len(hoverData[last.uri]) :
            isEqual(hoverData[last.uri][i].range, last.range) =>
                hoverData[last.uri][i].command = command

(***************************************************************************)
(* The store under its interval timer: setInterval fires cleanupStaleData  *)
(* every CLEANUP_INTERVAL_MS from the construction on, and the clock does  *)
(* not pass a firing time while the timer runs.  The clock visits, in each *)
(* interval, its first millisecond, its last one and its end.              *)
(***************************************************************************)
MaxSweeps == 14

Horizon == MaxSweeps * CLEANUP_INTERVAL_MS

Instants(t) ==
    LET start == (t \div CLEANUP_INTERVAL_MS) * CLEANUP_INTERVAL_MS
    IN  {start + 1, start + CLEANUP_INTERVAL_MS - 1, start + CLEANUP_INTERVAL_MS}

\* The interval timer's callback.
IntervalFires ==
    /\ cleanupInterval
    /\ now = nextSweep
    /\ hoverData' = cleanupStaleData(hoverData, now)
    /\ nextSweep' = nextSweep + CLEANUP_INTERVAL_MS
    /\ last' = Op("sweep", "", <<0, 0>>, 0, <<>>,
                  \E u \in DOMAIN hoverData : \E i \in 1..Len(hoverData[u]) :
                      now - hoverData[u][i].timestamp = MAX_AGE_MS,
                  <<>>)
    /\ UNCHANGED <<pc, requestVars, sanitizedInput, substituted, command,
                   processVars, cleanupInterval, now, ticks, openDocs,
                   request, popup, shownMessages, sessionVars>>

\* Time passes up to the instant t.
Advance(t) ==
    /\ now < t
    /\ t <= Horizon
    /\ cleanupInterval => t <= nextSweep
    /\ now' = t
    /\ UNCHANGED <<pc, requestVars, sanitizedInput, substituted, command,
                   processVars, hoverData, cleanupInterval, ticks, last,
                   hostVars>>

TimerNext ==
    \/ \E uri \in Docs : StoreOutput(uri, <<0, 0>>, <<"o">>)
    \/ IntervalFires
    \/ \E t \in Instants(now) : Advance(t)
    \/ Dispose

TimerSpec == StoreInit /\ [][TimerNext]_vars

Covering(uri, position) ==
    {i \in 1..Len(hoverData[uri]) : Contains(hoverData[uri][i].range, position)}

C32_FirstInsertedWins ==
    /\ [][last'.op = "store" =>
              LET old == IF last'.uri \in DOMAIN hoverData
                         THEN hoverData[last'.uri] ELSE <<>>
                  same == {i \in 1..Len(old) : isEqual(old[i].range, last'.range)}
                  kept == IF same = {} THEN old
                          ELSE RemoveAt(old, CHOOSE i \in same : TRUE)
                  new == hoverData'[last'.uri]
              IN  /\ Cardinality(same) <= 1
                  /\ Len(new) = Len(kept) + 1
                  /\ SubSeq(new, 1, Len(kept)) = kept
                  /\ new[Len(new)].range = last'.range
                  /\ new[Len(new)].output = last'.output]_vars
    /\ [](\A uri \in DOMAIN hoverData : \A position \in Positions :
              Covering(uri, position) # {} =>
                  LET first == CHOOSE i \in Covering(uri, position) :
                                   \A j \in Covering(uri, position) : i <= j
                  IN  /\ provideHover(hoverData, uri, position)
                          = <<[output |-> hoverData[uri][first].output,
                               range |-> hoverData[uri][first].range]>>
                      /\ getOutputAtPosition(hoverData, uri, position)
                          = <<hoverData[uri][first].output>>)

\* <<0, 0>> was stored, then <<0, 1>>, then <<0, 0>> again: both cover
\* position 0 and the lookup there shows <<0, 1>>.
C32_Witness ==
    /\ last.op = "store"
    /\ last.hit
    /\ last.range = <<0, 0>>
    /\ Cardinality(Covering(last.uri, 0)) = 2
    /\ provideHover(hoverData, last.uri, 0)[1].range = <<0, 1>>

(***************************************************************************)
(* C33: a lookup treats a stored range as half-open: position p is         *)
(* contained if and only if start <= p < end, so a lookup at the range's   *)
(* end returns nothing when no other range covers it.                      *)
(***************************************************************************)
C33_HalfOpenLookup ==
    last.op \in {"hover", "get"} =>
        (last.result # <<>> <=>
            /\ last.uri \in DOMAIN hoverData
            /\ \E i \in 1..Len(hoverData[last.uri]) :
                   /\ hoverData[last.uri][i].range[1] <= last.position
                   /\ last.position < hoverData[last.uri][i].range[2])

C35_OtherDocumentsUntouched ==
    [][last'.op \in {"store", "clear", "close"} =>
          \A other \in DOMAIN hoverData \ {last'.uri} :
              /\ other \in DOMAIN hoverData'
              /\ hoverData'[other] = hoverData[other]]_vars

\* One document was closed with its records while the other one keeps a
\* record stored earlier.
C35_Witness ==
    /\ last.op = "close"
    /\ last.hit
    /\ \E other \in DOMAIN hoverData : \E i \in 1..Len(hoverData[other]) :
           hoverData[other][i].timestamp < now

(***************************************************************************)
(* C31: the interpreter depends on the shell kind alone: powershell runs   *)
(* powershell.exe -Command, bash runs /bin/bash -c, and a configured shell *)
(* kind that is neither is warned about and run as bash, without the       *)
(* PowerShell quote pass; no other binary is ever spawned.                 *)
(***************************************************************************)
C31_InterpreterFromShellKind ==
    pc = "spawned" =>
        /\ shellArgv = (IF shellType = "powershell"
                        THEN <<"powershell.exe", "-Command">>
                        ELSE <<"/bin/bash", "-c">>)
        /\ shellType = "powershell" =>
               command = JsReplaceAll(substituted, <<SQUOTE>>, <<SQUOTE, SQUOTE>>)
        /\ shellType # "powershell" => command = substituted
        /\ (request.status = "running" /\ shellType \notin ShellTypes) =>
               ShellWarning \in shownMessages

\* The configured shell is zsh and the command, which holds a single quote,
\* was handed to /bin/bash -c with the quote not doubled.
C31_Witness ==
    /\ pc = "spawned"
    /\ request.status = "running"
    /\ shellType = "zsh"
    /\ proc = "alive"
    /\ shellArgv[1] = "/bin/bash"
    /\ \E i \in 1..Len(command) : command[i] = SQUOTE

(***************************************************************************)
(* Overlapping command handlers (extension.ts).  The executeCommand        *)
(* handler is async and is not guarded against re-entry: each invocation   *)
(* keeps its editor, selection, text and actualCommand in its own closure  *)
(* across the await of commandExecutor.execute, and handleExecutionResult  *)
(* runs when that invocation's promise is fulfilled.  The executor keeps   *)
(* no state between calls, so a call is represented by the result it       *)
(* delivers.  deactivate() disposes the HoverManager; the command is       *)
(* unregistered with it.                                                   *)
(***************************************************************************)
MaxHandlers == 2

\* What commandExecutor.execute can resolve with.
HandlerResults ==
    {[success |-> TRUE, output |-> o] : o \in Outputs}
    \cup {[success |-> FALSE, output |-> <<>>, error |-> <<"e">>]}

\* The invocations whose handleExecutionResult has run.
Done(hs) == {i \in 1..Len(hs) : hs[i].status = "done"}

\* The command handler up to the await in executeCommandWithProgress.
HandlerInvoke(uri, selection, text) ==
    /\ cleanupInterval
    /\ Len(handlers) < MaxHandlers
    /\ handlers' = Append(handlers,
           [status |-> "running", editor |-> uri, selection |-> selection,
            selectedText |-> text,
            actualCommand |-> JsReplaceAll(EchoTemplate, Placeholder, text),
            result |-> <<>>, rank |-> 0])
    /\ UNCHANGED <<pc, requestVars, sanitizedInput, substituted, command,
                   processVars, storeVars, openDocs, request, popup,
                   shownMessages, nextSweep, poster, panel>>

\* The await of invocation i returns with result and handleExecutionResult
\* runs; rank is the position of the invocation in completion order.
HandlerComplete(i, result) ==
    /\ i \in 1..Len(handlers)
    /\ handlers[i].status = "running"
    /\ hoverData' = storeOutput(hoverData, handlers[i].editor,
                                handlers[i].selection, StoredText(result),
                                handlers[i].actualCommand,
                                handlers[i].selectedText, now)
    /\ last' = Op("store", handlers[i].editor, handlers[i].selection, 0,
                  StoredText(result),
                  HasRange(hoverData, handlers[i].editor,
                           handlers[i].selection), <<>>)
    /\ popup' = <<PopupArgs(result)>>
    /\ handlers' = [handlers EXCEPT
                       ![i] = [@ EXCEPT !.status = "done",
                                        !.result = <<result>>,
                                        !.rank = Cardinality(Done(handlers)) + 1]]
    /\ UNCHANGED <<pc, requestVars, sanitizedInput, substituted, command,
                   processVars, cleanupInterval, now, ticks, openDocs, request,
                   shownMessages, nextSweep, poster, panel>>

HandlerNext ==
    \/ \E uri \in Docs : \E selection \in {<<0, 0>>, <<0, 1>>} :
           HandlerInvoke(uri, selection, StoreInput)
    \/ \E i \in 1..MaxHandlers : \E result \in HandlerResults :
           HandlerComplete(i, result)
    \/ Dispose

HandlerSpec == StoreInit /\ [][HandlerNext]_vars

(***************************************************************************)
(* C36: a second command can be dispatched while a first is running; when  *)
(* executions on the same document and span overlap, after they have       *)
(* completed the store holds exactly one record for the span, and it is    *)
(* the record of the execution that completed last, whichever was          *)
(* dispatched last.                                                        *)
(***************************************************************************)
SpanRecords(data, uri, range) ==
    IF uri \in DOMAIN data
    THEN {k \in 1..Len(data[uri]) : isEqual(data[uri][k].range, range)}
    ELSE {}

SameTarget(h1, h2) == h1.editor = h2.editor /\ h1.selection = h2.selection

C36_LastCompletedWins ==
    /\ [][\A i \in 1..Len(handlers) :
              (handlers[i].status = "running" /\ handlers'[i].status = "done") =>
                  LET h == handlers'[i]
                      recs == SpanRecords(hoverData', h.editor, h.selection)
                  IN  /\ Cardinality(recs) = 1
                      /\ \A k \in recs :
                             hoverData'[h.editor][k].output
                                 = StoredText(h.result[1])]_vars
    /\ [](cleanupInterval =>
             \A i \in Done(handlers) :
                 (\A j \in Done(handlers) :
                      SameTarget(handlers[i], handlers[j])
                          => handlers[j].rank <= handlers[i].rank)
                 => LET h == handlers[i]
                        recs == SpanRecords(hoverData, h.editor, h.selection)
                    IN  /\ Cardinality(recs) = 1
                        /\ \A k \in recs :
                               hoverData[h.editor][k].output
                                   = StoredText(h.result[1]))

\* Two executions on one span, the first dispatched completing last with a
\* different result: the record is the first one's.
C36_Witness ==
    /\ cleanupInterval
    /\ Len(handlers) >= 2
    /\ {1, 2} \subseteq Done(handlers)
    /\ SameTarget(handlers[1], handlers[2])
    /\ handlers[1].rank > handlers[2].rank
    /\ handlers[1].result # handlers[2].result
    /\ \A k \in SpanRecords(hoverData, handlers[1].editor, handlers[1].selection) :
           hoverData[handlers[1].editor][k].output
               = StoredText(handlers[1].result[1])
    /\ SpanRecords(hoverData, handlers[1].editor, handlers[1].selection) # {}

(***************************************************************************)
(* C39: once dispose has run the store holds no record in any later state, *)
(* also when a command dispatched before dispose completes after it.       *)
(***************************************************************************)
C39_EmptyAfterDispose ==
    ~cleanupInterval => hoverData = EmptyMap

(***************************************************************************)
(* JsonPoster.post (jsonPoster.ts).  The content is a text over brackets,  *)
(* the digit 1 and the space; a URL is the sequence of its scheme and its  *)
(* host, <<>> when the setting is empty.                                   *)
(***************************************************************************)
MaxJsonLen == 3

JsonChars == {"[", "]", "1", " "}
JsonTexts == SeqsUpTo(JsonChars, MaxJsonLen)
JsonWhitespace == {" ", "\t", "\n", "\r"}

RECURSIVE TrimLeft(_)
TrimLeft(s) ==
    IF s # <<>> /\ Head(s) \in JsonWhitespace THEN TrimLeft(Tail(s)) ELSE s

RECURSIVE TrimRight(_)
TrimRight(s) ==
    IF s # <<>> /\ s[Len(s)] \in JsonWhitespace
    THEN TrimRight(SubSeq(s, 1, Len(s) - 1))
    ELSE s

\* The JSON grammar over JsonChars: a number of digits 1, or an array of no
\* element or one (there is no comma to separate two).
RECURSIVE JsonValue(_)
JsonValue(s) ==
    /\ s # <<>>
    /\ \/ \A i \in 1..Len(s) : s[i] = "1"
       \/ /\ Len(s) >= 2
          /\ s[1] = "["
          /\ s[Len(s)] = "]"
          /\ LET inner == TrimRight(TrimLeft(SubSeq(s, 2, Len(s) - 1)))
             IN  inner = <<>> \/ JsonValue(inner)

\* JSON.parse(text) returns (it throws a SyntaxError otherwise).
JsonParses(text) == JsonValue(TrimRight(TrimLeft(text)))

PostUrls == {<<>>, <<" ">>, <<"h">>, <<"http:", "h">>, <<"https:", "h">>}

\* new URL(url) returns (it throws a TypeError otherwise).
UrlParses(url) == Len(url) >= 2 /\ url[1] \in {"http:", "https:"}

NoUrlMessage ==
    "No URL configured. Please set commandOutputHover.jsonPostUrl in settings."

PostFailure(error) == [success |-> FALSE, error |-> error]

\* post sending whatever text it is given, the JSON.parse test left out.
postWithoutJsonCheck(content, url) ==
    IF IsBlank(url)
    THEN [sent |-> FALSE, result |-> <<PostFailure(<<NoUrlMessage>>)>>]
    ELSE IF ~UrlParses(url)
    THEN [sent |-> FALSE,
          result |-> <<PostFailure(<<"Failed to make request: ", "TypeError">>)>>]
    ELSE [sent |-> TRUE, result |-> <<>>]

\* post up to req.end(): whether a request went out, and what the caller
\* has got by then.
post(content, url) ==
    IF IsBlank(url)
    THEN [sent |-> FALSE, result |-> <<PostFailure(<<NoUrlMessage>>)>>]
    ELSE IF ~JsonParses(content)
    THEN [sent |-> FALSE,
          result |-> <<PostFailure(<<"Invalid JSON: ", "SyntaxError">>)>>]
    ELSE IF ~UrlParses(url)
    THEN [sent |-> FALSE,
          result |-> <<PostFailure(<<"Failed to make request: ", "TypeError">>)>>]
    ELSE [sent |-> TRUE, result |-> <<>>]

PostStatusCodes == {200, 204, 300, 500}
ResponseBodies == {<<>>, <<"1">>, <<"]">>}

\* Everything but the poster.
posterFrame == <<pc, requestVars, sanitizedInput, substituted, command,
                 processVars, storeVars, openDocs, request, popup,
                 shownMessages, nextSweep, handlers, panel>>

\* await poster.post(jsonContent, config), up to its return or to the
\* request being written.
Post(content, url) ==
    /\ poster.status = "idle"
    /\ LET call == post(content, url)
       IN  poster' = [status |-> IF call.sent THEN "sending" ELSE "returned",
                      url |-> url,
                      content |-> content,
                      requests |-> IF call.sent THEN 1 ELSE 0,
                      settled |-> IF call.sent THEN "pending" ELSE "fulfilled",
                      result |-> call.result]
    /\ UNCHANGED posterFrame

\* res.on('end')
Response(statusCode, data) ==
    /\ poster.status = "sending"
    /\ poster' = [poster EXCEPT
           !.status = "returned",
           !.settled = "fulfilled",
           !.result =
               IF statusCode >= 200 /\ statusCode < 300
               THEN <<[success |-> TRUE,
                       data |-> [parsed |-> JsonParses(data), text |-> data],
                       statusCode |-> statusCode]>>
               ELSE <<[success |-> FALSE,
                       error |-> <<"HTTP ", ToString(statusCode), ": ">> \o data,
                       statusCode |-> statusCode]>>]
    /\ UNCHANGED posterFrame

\* req.on('error')
RequestError ==
    /\ poster.status = "sending"
    /\ poster' = [poster EXCEPT
           !.status = "returned",
           !.settled = "fulfilled",
           !.result = <<PostFailure(<<"Request failed: ", "ECONNREFUSED">>)>>]
    /\ UNCHANGED posterFrame

PostNext ==
    \/ \E content \in JsonTexts : \E url \in PostUrls : Post(content, url)
    \/ \E statusCode \in PostStatusCodes : \E data \in ResponseBodies :
           Response(statusCode, data)
    \/ RequestError

PostSpec == StoreInit /\ [][PostNext]_vars

(***************************************************************************)
(* C38: post validates before sending: with an empty or blank URL, or with *)
(* content that is not valid JSON, the caller gets success = false with an *)
(* error message, no request goes out, and the call does not reject.       *)
(***************************************************************************)
C38_ValidatesBeforeSending ==
    /\ poster.settled # "rejected"
    /\ (poster.status # "idle"
            /\ (IsBlank(poster.url) \/ ~JsonParses(poster.content))) =>
           /\ poster.status = "returned"
           /\ poster.settled = "fulfilled"
           /\ poster.requests = 0
           /\ Len(poster.result) = 1
           /\ ~poster.result[1].success
           /\ poster.result[1].error # <<>>

\* A well-formed URL and the text "[1": nothing went out.
C38_Witness ==
    /\ poster.status = "returned"
    /\ UrlParses(poster.url)
    /\ poster.content = <<"[", "1">>
    /\ poster.requests = 0
    /\ ~poster.result[1].success

(***************************************************************************)
(* The custom JSON editor (jsonEditorProvider.ts): the isUpdatingDocument  *)
(* flag of resolveCustomTextEditor, the 'updateText' messages the webview  *)
(* posts, and the document change listener.  An 'updateText' message is    *)
(* counted in panel.inbox until its handler starts, in panel.applying      *)
(* while workspace.applyEdit has not changed the document, in              *)
(* panel.resuming until the await returns, and in panel.timers until its   *)
(* setTimeout callback runs.  The durations of applyEdit and of message    *)
(* delivery are not bounded by the code, so these steps interleave freely. *)
(***************************************************************************)
MaxEdits == 3

\* Everything but the panel.
panelFrame == <<pc, requestVars, sanitizedInput, substituted, command,
                processVars, storeVars, openDocs, request, popup,
                shownMessages, nextSweep, handlers, poster>>

\* The onDidChangeTextDocument listener for a change of the edited document:
\* whether updateWebview posted an 'update' message.
changeListener(isUpdatingDocument, source) ==
    [source |-> source, forwarded |-> ~isUpdatingDocument]

\* The webview's debounce timer fires: vscode.postMessage({type: 'updateText'}).
WebviewPostsText ==
    /\ panel.sent < MaxEdits
    /\ panel' = [panel EXCEPT !.sent = @ + 1, !.inbox = @ + 1]
    /\ UNCHANGED panelFrame

\* onDidReceiveMessage, case 'updateText', up to the await.
ReceiveUpdateText ==
    /\ panel.inbox > 0
    /\ panel' = [panel EXCEPT !.inbox = @ - 1,
                              !.isUpdatingDocument = TRUE,
                              !.applying = @ + 1]
    /\ UNCHANGED panelFrame

\* workspace.applyEdit replaces the document's text and the change event
\* reaches the listener.
EditApplied ==
    /\ panel.applying > 0
    /\ panel' = [panel EXCEPT
           !.applying = @ - 1,
           !.resuming = @ + 1,
           !.lastChange = changeListener(panel.isUpdatingDocument, "webview")]
    /\ UNCHANGED panelFrame

\* The await of updateTextDocument returns: setTimeout(..., 100).
UpdateResumes ==
    /\ panel.resuming > 0
    /\ panel' = [panel EXCEPT !.resuming = @ - 1, !.timers = @ + 1]
    /\ UNCHANGED panelFrame

\* The setTimeout callback: isUpdatingDocument = false.
FlagTimerFires ==
    /\ panel.timers > 0
    /\ panel' = [panel EXCEPT !.timers = @ - 1, !.isUpdatingDocument = FALSE]
    /\ UNCHANGED panelFrame

\* The document is changed by something else: another editor of the file,
\* undo, a formatter, a reload from disk.
OtherChange ==
    /\ panel' = [panel EXCEPT
           !.lastChange = changeListener(panel.isUpdatingDocument, "other")]
    /\ UNCHANGED panelFrame

PanelNext ==
    \/ WebviewPostsText
    \/ ReceiveUpdateText
    \/ EditApplied
    \/ UpdateResumes
    \/ FlagTimerFires
    \/ OtherChange

PanelSpec == StoreInit /\ [][PanelNext]_vars

(***************************************************************************)
(* C37: an 'update' message is posted to the webview for a change of the   *)
(* edited document if and only if the change did not come from the webview *)
(* itself: an edit made for an 'updateText' message is never echoed, also  *)
(* when several such messages overlap, and a change from any other source  *)
(* is always forwarded.                                                    *)
(***************************************************************************)
C37_ForwardedIffNotFromWebview ==
    /\ panel.lastChange.source = "webview" => ~panel.lastChange.forwarded
    /\ panel.lastChange.source = "other" => panel.lastChange.forwarded

====
